---------------------------- MODULE Spec2Model ----------------------------
(***************************************************************************)
(* The SQLite-backed job queue of internship-logger: the jobs and          *)
(* job_clips tables (app/core/database.py), the HTTP handlers that drive   *)
(* them (app/api/cloud.py, app/api/local.py) and the polling worker        *)
(* (app/worker.py).                                                        *)
(*                                                                         *)
(* Granularity.  Every database function opens its own connection          *)
(* (_connect, WAL journal) and the sqlite3 module runs a SELECT outside    *)
(* any transaction and opens a transaction only before an INSERT/UPDATE,   *)
(* which lasts until commit().  One step of the model is therefore one     *)
(* SELECT, or one write transaction up to its commit.  Execution contexts  *)
(* (server processes, background threads, the worker) interleave between   *)
(* such steps.                                                             *)
(***************************************************************************)
EXTENDS Integers, Sequences, FiniteSets, TLC

\* ----------------------------------------------------------------- bounds
MaxJobs == 2      \* jobs ever submitted
MaxClips == 2     \* clips in one submission
MaxClock == 1     \* last reading of the wall clock, in half seconds
MaxTimeouts == 1  \* requests of the worker that ever time out
MaxCalls == 1     \* requests the other holder of the secret ever sends

Workers == {"w1"}              \* instances of worker.py
Client == "client"             \* any other holder of the worker secret
Callers == Workers \cup {Client}
Shapes == {"cloud", "local"}   \* main_cloud.py or main_local.py

NULL == <<>>                   \* SQL NULL / Python None
JobIdSpace == 1..MaxJobs       \* ids uuid4 can produce within the bound

\* AudioClip (schemas/api_models.py): the suffix is left at its default.
AudioClip(b64) == [audio_b64 |-> b64, suffix |-> ".webm"]

\* The submissions a client can send: a list of at most MaxClips clips, the
\* k-th recording of a list carrying payload k.
ClipLists == {[k \in 1..n |-> AudioClip(k)] : n \in 0..MaxClips}

\* ------------------------------------------------------------- timestamps
\* Character codes of the characters isoformat() produces around the seconds.
ChPlus == 43
ChDot == 46
ChZero == 48
ChFive == 53

\* datetime.now(timezone.utc).isoformat(): "...SS+00:00" when the microsecond
\* field is 0 and "...SS.ffffff+00:00" otherwise.  The model keeps the part
\* of the text that varies: two digits of seconds, the optional fraction and
\* the first character of the offset.  The clock t counts half seconds.
IsoFormat(t) ==
  LET s == t \div 2
      secs == <<ChZero + (s \div 10), ChZero + (s % 10)>>
  IN  IF t % 2 = 0 THEN secs \o <<ChPlus>>
                   ELSE secs \o <<ChDot, ChFive, ChPlus>>

\* SQLite's BINARY collation on TEXT (memcmp, then the shorter one first).
TextLess(a, b) ==
  \E k \in 1..(Len(a) + 1) :
     /\ k <= Len(b)
     /\ \A i \in 1..(k - 1) : a[i] = b[i]
     /\ (k = Len(a) + 1 \/ a[k] < b[k])

\* The clock reading a stored timestamp stands for.
ParseIso(txt) == CHOOSE t \in 0..MaxClock : IsoFormat(t) = txt

\* ------------------------------------------------------------------ state
VARIABLES
  shape,      \* which application serves the database
  clock,      \* the wall clock
  nextId,     \* how many job ids uuid4 has handed out
  jobs,       \* table jobs, in rowid order
  job_clips,  \* table job_clips, in id (AUTOINCREMENT) order
  creating,   \* create_job calls between uuid4()/now() and their commit
  sresp,      \* the last answer of POST /submit, or NULL
  tasks,      \* background tasks of the local application not yet run
  pc,         \* where each caller of the worker endpoints stands
  held,       \* the job dict a caller got from /queue/next, or NULL
  resp,       \* the HTTP response a caller is looking at, or NULL
  inflight,   \* requests the server has accepted and not finished
  pages,      \* pages created by create_notion_page
  timeouts,   \* requests of the worker that timed out
  calls,      \* requests the other holder of the secret has sent
  returned,   \* history: the job ids claim_next_job returned, in order
  submitted,  \* history: the clips create_job was called with, per job id
  published   \* history: the job create_notion_page made each page for

vars == <<shape, clock, nextId, jobs, job_clips, creating, sresp, tasks, pc, held,
          resp, inflight, pages, timeouts, calls, returned, submitted,
          published>>

\* --------------------------------------------------- database.py, as SQL
JobIds(js) == {js[i].id : i \in DOMAIN js}

\* An INSERT that also stamps the row: completed_at is set at creation.
InsertJobStamped(js, job_id, now) ==
  Append(js, [id |-> job_id, status |-> "pending", created_at |-> now,
              completed_at |-> now, notion_url |-> NULL,
              error_message |-> NULL])

\* INSERT INTO jobs (id, status, created_at) VALUES (?, 'pending', ?)
InsertJob(js, job_id, now) ==
  Append(js, [id |-> job_id, status |-> "pending", created_at |-> now,
              completed_at |-> NULL, notion_url |-> NULL,
              error_message |-> NULL])

\* create_job committing after the INSERT of the job row: the row is visible
\* and its clips are not yet.
InsertClipsLater(cs, job_id, clips) == cs

\* INSERT INTO job_clips (job_id, audio_b64, suffix) VALUES (?, ?, ?), once
\* per clip, in the order of the list; id is AUTOINCREMENT.
InsertClips(cs, job_id, clips) ==
  cs \o [k \in 1..Len(clips) |->
           [id |-> Len(cs) + k, job_id |-> job_id,
            audio_b64 |-> clips[k].audio_b64, suffix |-> clips[k].suffix]]

\* The rows a queue with a lease would range over: a job in processing can
\* be claimed again.
UnfinishedRows(js) ==
  {i \in DOMAIN js : js[i].status \in {"pending", "processing"}}

\* The rows SELECT ... WHERE status='pending' ranges over, as rowids.
PendingRows(js) == {i \in DOMAIN js : js[i].status = "pending"}

\* The same query without its ORDER BY: the first pending row of the scan.
SelectFirstPending(js) ==
  {i \in PendingRows(js) : \A k \in PendingRows(js) : i <= k}

\* The same query with equal keys delivered last row first.
SelectOldestPendingUnstable(js) ==
  {i \in PendingRows(js) :
     \A k \in PendingRows(js) :
        /\ ~TextLess(js[k].created_at, js[i].created_at)
        /\ (js[k].created_at = js[i].created_at => i >= k)}

\* The same query without its WHERE clause: the oldest row of any status.
SelectOldestAny(js) ==
  {i \in DOMAIN js :
     \A k \in DOMAIN js :
        /\ ~TextLess(js[k].created_at, js[i].created_at)
        /\ (js[k].created_at = js[i].created_at => i <= k)}

\* SELECT id FROM jobs WHERE status='pending' ORDER BY created_at ASC LIMIT 1
\* The table has no index on status or created_at: SQLite scans it in rowid
\* order and keeps the first row among those with the least created_at.
\* The result is the set of rows fetchone() returns: one row, or none.
SelectOldestPending(js) ==
  {i \in PendingRows(js) :
     \A k \in PendingRows(js) :
        /\ ~TextLess(js[k].created_at, js[i].created_at)
        /\ (js[k].created_at = js[i].created_at => i <= k)}

\* UPDATE jobs SET status='processing' WHERE id=?
UpdateProcessing(js, job_id) ==
  [i \in DOMAIN js |->
     IF js[i].id = job_id THEN [js[i] EXCEPT !.status = "processing"]
                          ELSE js[i]]

\* The same query with its rows delivered newest first.
SelectClipsNewestFirst(cs, job_id) ==
  LET mine == SelectSeq(cs, LAMBDA c : c.job_id = job_id)
  IN  [k \in 1..Len(mine) |->
         [audio_b64 |-> mine[Len(mine) + 1 - k].audio_b64,
          suffix |-> mine[Len(mine) + 1 - k].suffix]]

\* SELECT audio_b64, suffix FROM job_clips WHERE job_id=?  (rowid order)
SelectClips(cs, job_id) ==
  LET mine == SelectSeq(cs, LAMBDA c : c.job_id = job_id)
  IN  [k \in 1..Len(mine) |->
         [audio_b64 |-> mine[k].audio_b64, suffix |-> mine[k].suffix]]

\* A complete_job that marks the job done without storing the page URL.
complete_job_no_url(js, job_id, notion_url, now) ==
  [i \in DOMAIN js |->
     IF js[i].id = job_id
     THEN [js[i] EXCEPT !.status = "done", !.completed_at = now]
     ELSE js[i]]

\* The UPDATE of complete_job without its WHERE clause: every row is written.
complete_job_unscoped(js, job_id, notion_url, now) ==
  [i \in DOMAIN js |->
     [js[i] EXCEPT !.status = "done", !.completed_at = now,
                   !.notion_url = notion_url]]

\* complete_job: UPDATE jobs SET status='done', completed_at=?, notion_url=?
\* WHERE id=?
complete_job(js, job_id, notion_url, now) ==
  [i \in DOMAIN js |->
     IF js[i].id = job_id
     THEN [js[i] EXCEPT !.status = "done", !.completed_at = now,
                        !.notion_url = notion_url]
     ELSE js[i]]

\* An except clause that swallows the error: nothing is written.
fail_job_swallowed(js, job_id, error_message, now) == js

\* fail_job: UPDATE jobs SET status='error', completed_at=?, error_message=?
\* WHERE id=?
fail_job(js, job_id, error_message, now) ==
  [i \in DOMAIN js |->
     IF js[i].id = job_id
     THEN [js[i] EXCEPT !.status = "error", !.completed_at = now,
                        !.error_message = error_message]
     ELSE js[i]]

\* get_job_status: the row with this id, or None.
get_job_status(js, job_id) ==
  IF job_id \in JobIds(js)
  THEN js[CHOOSE i \in DOMAIN js : js[i].id = job_id]
  ELSE NULL

\* -------------------------------------------------------------- messages
\* The page URL create_notion_page returns for its n-th page.
PageUrl(n) == <<"https://notion/page", n>>
\* str(exc) of a WhisperError / OllamaError / NotionError raised in a run.
AiErrorMsg == <<"WhisperError or OllamaError">>
NotionErrorMsg == <<"NotionError">>
\* The f-strings that wrap an exception before it is stored.
WorkerUnexpectedMsg == <<"Unexpected: ", "exc">>
ServerNotionMsg == <<"Notion error: ", "exc">>
ServerUnexpectedMsg == <<"Unexpected error: ", "exc">>

\* ------------------------------------------------------------------- Init
Init ==
  /\ shape \in Shapes
  /\ clock = 0
  /\ nextId = 0
  /\ jobs = <<>>
  /\ job_clips = <<>>
  /\ creating = {}
  /\ sresp = NULL
  /\ tasks = {}
  /\ pc = [c \in Callers |-> "idle"]
  /\ held = [c \in Callers |-> NULL]
  /\ resp = [c \in Callers |-> NULL]
  /\ inflight = {}
  /\ pages = 0
  /\ timeouts = 0
  /\ calls = 0
  /\ returned = <<>>
  /\ submitted = [id \in JobIdSpace |-> NULL]
  /\ published = <<>>

\* The wall clock advances between any two steps.
Tick ==
  /\ clock < MaxClock
  /\ clock' = clock + 1
  /\ UNCHANGED <<shape, nextId, jobs, job_clips, creating, sresp, tasks, pc,
                 held, resp, inflight, pages, calls, timeouts,
                 returned, submitted, published>>

\* ------------------------------------------------------- POST /api/submit
\* submit_audio checking the list after the job row is written: the answer
\* is HTTP 400 and a job without clips stays in the table.
SubmitRejectLate ==
  /\ nextId < MaxJobs
  /\ nextId' = nextId + 1
  /\ jobs' = InsertJob(jobs, nextId + 1, IsoFormat(clock))
  /\ sresp' = [code |-> 400]
  /\ UNCHANGED <<shape, clock, job_clips, creating, tasks, pc, held, resp,
                 inflight, pages, calls, timeouts, returned, submitted,
                 published>>

\* submit_audio with an empty list: HTTP 400 before create_job is reached.
SubmitReject ==
  /\ sresp' = [code |-> 400]
  /\ UNCHANGED <<shape, clock, nextId, jobs, job_clips, creating, tasks, pc,
                 held, resp, inflight, pages, calls, timeouts,
                 returned, submitted, published>>

\* create_job up to _connect(): the id and the timestamp are taken first.
CreateBegin(clips) ==
  /\ clips # <<>>
  /\ nextId < MaxJobs
  /\ nextId' = nextId + 1
  /\ creating' = creating \cup
       {[job_id |-> nextId + 1, now |-> IsoFormat(clock), clips |-> clips]}
  /\ submitted' = [submitted EXCEPT ![nextId + 1] = clips]
  /\ UNCHANGED <<shape, clock, jobs, job_clips, sresp, tasks, pc, held, resp,
                 inflight, pages, calls, timeouts,
                 returned, published>>

\* create_job from the first INSERT to commit(), one transaction; then the
\* handler answers, and the local application queues its background task.
CreateCommit(cr) ==
  /\ cr \in creating
  /\ creating' = creating \ {cr}
  /\ jobs' = InsertJob(jobs, cr.job_id, cr.now)
  /\ job_clips' = InsertClips(job_clips, cr.job_id, cr.clips)
  /\ sresp' = [code |-> 200, job_id |-> cr.job_id]
  /\ tasks' = IF shape = "local"
              THEN tasks \cup {[job_id |-> cr.job_id, clips |-> cr.clips]}
              ELSE tasks
  /\ UNCHANGED <<shape, clock, nextId, pc, held, resp, inflight, pages,
                 calls, timeouts,
                 returned, submitted, published>>

\* ------------------------------------------- local.py: the background task
\* process_job_background: the pipeline, then one write.  "ok": every stage
\* succeeded and the page was created; "ai_error": transcribe_audio_file or
\* summarize_transcript raised; "notion_error": create_notion_page raised
\* NotionError; "unexpected": any other exception.
LocalOutcomes == {"ok", "ai_error", "notion_error", "unexpected"}

LocalTaskRun(t, outcome) ==
  /\ t \in tasks
  /\ tasks' = tasks \ {t}
  /\ \/ /\ outcome = "ok"
        /\ pages' = pages + 1
        /\ published' = Append(published, t.job_id)
        /\ jobs' = complete_job(jobs, t.job_id, PageUrl(pages + 1),
                                IsoFormat(clock))
     \/ /\ outcome = "ai_error"
        /\ jobs' = fail_job(jobs, t.job_id, AiErrorMsg, IsoFormat(clock))
        /\ pages' = pages
        /\ published' = published
     \/ /\ outcome = "notion_error"
        /\ jobs' = fail_job(jobs, t.job_id, NotionErrorMsg, IsoFormat(clock))
        /\ pages' = pages
        /\ published' = published
     \/ /\ outcome = "unexpected"
        /\ jobs' = fail_job(jobs, t.job_id, ServerUnexpectedMsg,
                            IsoFormat(clock))
        /\ pages' = pages
        /\ published' = published
  /\ UNCHANGED <<shape, clock, nextId, job_clips, creating, sresp, pc, held,
                 resp, inflight, calls, timeouts,
                 returned, submitted>>

\* --------------------------------------------- GET /api/jobs/{id}/status
\* job_status: 404 for an unknown id, otherwise the status of the row.
\* notion_url and error_message are passed on as stored.
JobStatusResponse(js, job_id) ==
  LET info == get_job_status(js, job_id)
  IN  IF info = NULL
      THEN [job_id |-> job_id, code |-> 404, status |-> "not_found",
            notion_url |-> NULL, error_message |-> NULL]
      ELSE [job_id |-> job_id, code |-> 200, status |-> info.status,
            notion_url |-> info.notion_url,
            error_message |-> info.error_message]


\* ------------------------------------------- cloud.py: the worker endpoints
\* A request the server has accepted.  live: its caller still waits for the
\* answer.  step: the next statement of the handler.
Request(op, from, step, job_id, msg) ==
  [op |-> op, from |-> from, live |-> TRUE, step |-> step,
   job_id |-> job_id, msg |-> msg]

\* The handler returns (or raises HTTPException): the answer reaches the
\* caller if it still waits.
Respond(r, answer) ==
  /\ inflight' = inflight \ {r}
  /\ IF r.live
     THEN /\ pc' = [pc EXCEPT ![r.from] = "resp"]
          /\ resp' = [resp EXCEPT ![r.from] = answer]
     ELSE UNCHANGED <<pc, resp>>

Advance(r, step, job_id) ==
  /\ inflight' = (inflight \ {r}) \cup
                   {[r EXCEPT !.step = step, !.job_id = job_id]}
  /\ UNCHANGED <<pc, resp>>

\* queue_next -> claim_next_job, the SELECT: None, or the id to claim.
QueueNextSelect(r) ==
  /\ r \in inflight /\ r.op = "next" /\ r.step = "select"
  /\ IF SelectOldestPending(jobs) = {}
     THEN Respond(r, [op |-> "next", job_id |-> 0, code |-> 200,
                      job |-> NULL])
     ELSE \E i \in SelectOldestPending(jobs) :
             Advance(r, "update", jobs[i].id)
  /\ UNCHANGED <<shape, clock, nextId, jobs, job_clips, creating, sresp,
                 tasks, held, pages, calls, timeouts,
                 returned, submitted, published>>

\* claim_next_job, the UPDATE and its commit.
QueueNextUpdate(r) ==
  /\ r \in inflight /\ r.op = "next" /\ r.step = "update"
  /\ jobs' = UpdateProcessing(jobs, r.job_id)
  /\ Advance(r, "clips", r.job_id)
  /\ UNCHANGED <<shape, clock, nextId, job_clips, creating, sresp, tasks,
                 held, pages, calls, timeouts,
                 returned, submitted, published>>

\* claim_next_job, the SELECT of the clips and the return of the job dict.
QueueNextClips(r) ==
  /\ r \in inflight /\ r.op = "next" /\ r.step = "clips"
  /\ Respond(r, [op |-> "next", job_id |-> r.job_id, code |-> 200,
                 job |-> [id |-> r.job_id,
                          clips |-> SelectClips(job_clips, r.job_id)]])
  /\ returned' = Append(returned, r.job_id)
  /\ UNCHANGED <<shape, clock, nextId, jobs, job_clips, creating, sresp,
                 tasks, held, pages, calls, timeouts, submitted,
                 published>>

\* queue_complete, get_job_status: 404 for an unknown id.
QueueCompleteLookup(r) ==
  /\ r \in inflight /\ r.op = "complete" /\ r.step = "lookup"
  /\ IF get_job_status(jobs, r.job_id) = NULL
     THEN Respond(r, [op |-> "complete", job_id |-> r.job_id, code |-> 404,
                      job |-> NULL])
     ELSE Advance(r, "publish", r.job_id)
  /\ UNCHANGED <<shape, clock, nextId, jobs, job_clips, creating, sresp,
                 tasks, held, pages, calls, timeouts,
                 returned, submitted, published>>

\* queue_complete, create_notion_page and the write that follows it.
NotionOutcomes == {"ok", "notion_error", "unexpected"}

QueueCompletePublish(r, outcome) ==
  /\ r \in inflight /\ r.op = "complete" /\ r.step = "publish"
  /\ \/ /\ outcome = "ok"
        /\ pages' = pages + 1
        /\ published' = Append(published, r.job_id)
        /\ jobs' = complete_job(jobs, r.job_id, PageUrl(pages + 1),
                                IsoFormat(clock))
        /\ Respond(r, [op |-> "complete", job_id |-> r.job_id,
                       code |-> 200, job |-> NULL])
     \/ /\ outcome = "notion_error"
        /\ pages' = pages
        /\ published' = published
        /\ jobs' = fail_job(jobs, r.job_id, ServerNotionMsg, IsoFormat(clock))
        /\ Respond(r, [op |-> "complete", job_id |-> r.job_id,
                       code |-> 502, job |-> NULL])
     \/ /\ outcome = "unexpected"
        /\ pages' = pages
        /\ published' = published
        /\ jobs' = fail_job(jobs, r.job_id, ServerUnexpectedMsg,
                            IsoFormat(clock))
        /\ Respond(r, [op |-> "complete", job_id |-> r.job_id,
                       code |-> 500, job |-> NULL])
  /\ UNCHANGED <<shape, clock, nextId, job_clips, creating, sresp, tasks,
                 held, calls, timeouts,
                 returned, submitted>>

\* A queue_fail that answers without calling fail_job.
QueueFailDropped(r) ==
  /\ r \in inflight /\ r.op = "fail"
  /\ Respond(r, [op |-> "fail", job_id |-> r.job_id, code |-> 200,
                 job |-> NULL])
  /\ UNCHANGED <<shape, clock, nextId, jobs, job_clips, creating, sresp,
                 tasks, held, pages, calls, timeouts, returned, submitted,
                 published>>

\* queue_fail: fail_job, then {"status": "error"} with HTTP 200.
QueueFail(r) ==
  /\ r \in inflight /\ r.op = "fail"
  /\ jobs' = fail_job(jobs, r.job_id, r.msg, IsoFormat(clock))
  /\ Respond(r, [op |-> "fail", job_id |-> r.job_id, code |-> 200,
                 job |-> NULL])
  /\ UNCHANGED <<shape, clock, nextId, job_clips, creating, sresp, tasks,
                 held, pages, calls, timeouts,
                 returned, submitted, published>>

\* --------------------------------------------------------------- worker.py
\* The request a caller waits for.
Waiting(c) == CHOOSE r \in inflight : r.from = c /\ r.live

Send(c, r) ==
  /\ inflight' = inflight \cup {r}
  /\ pc' = [pc EXCEPT ![c] = "await"]

\* main: poll_for_job sends GET /api/queue/next.
WorkerPoll(w) ==
  /\ shape = "cloud"
  /\ w \in Workers /\ pc[w] = "idle"
  /\ Send(w, Request("next", w, "select", 0, NULL))
  /\ UNCHANGED <<shape, clock, nextId, jobs, job_clips, creating, sresp,
                 tasks, held, resp, pages, calls, timeouts,
                 returned, submitted, published>>

\* The answer arrives.  poll_for_job returns data.get("job"): main calls
\* process_job with it, or sleeps.  After the answer to /complete or /fail
\* process_job prints and returns, and main sleeps.
WorkerReceive(w) ==
  /\ w \in Workers /\ pc[w] = "resp"
  /\ resp' = [resp EXCEPT ![w] = NULL]
  /\ IF resp[w].op = "next" /\ resp[w].code = 200 /\ resp[w].job # NULL
     THEN /\ held' = [held EXCEPT ![w] = resp[w].job]
          /\ pc' = [pc EXCEPT ![w] = "run"]
     ELSE /\ held' = [held EXCEPT ![w] = NULL]
          /\ pc' = [pc EXCEPT ![w] = "idle"]
  /\ UNCHANGED <<shape, clock, nextId, jobs, job_clips, creating, sresp,
                 tasks, inflight, pages, calls, timeouts,
                 returned, submitted, published>>

\* process_job: transcribe and summarize, then POST /complete; or, from the
\* except clauses, POST /fail with str(exc) or "Unexpected: {exc}".
WorkerOutcomes == {"ok", "ai_error", "unexpected"}

WorkerRun(w, outcome) ==
  /\ w \in Workers /\ pc[w] = "run"
  /\ \/ /\ outcome = "ok"
        /\ Send(w, Request("complete", w, "lookup", held[w].id, NULL))
     \/ /\ outcome = "ai_error"
        /\ Send(w, Request("fail", w, "fail", held[w].id, AiErrorMsg))
     \/ /\ outcome = "unexpected"
        /\ Send(w, Request("fail", w, "fail", held[w].id,
                           WorkerUnexpectedMsg))
  /\ UNCHANGED <<shape, clock, nextId, jobs, job_clips, creating, sresp,
                 tasks, held, resp, pages, calls, timeouts,
                 returned, submitted, published>>

\* requests.post raises inside the try of process_job (timeout=30, or the
\* connection is lost) while the server still holds the POST /complete: the
\* "except Exception" clause reports it with POST /fail.  The other two
\* requests need no action of their own: a GET /queue/next whose answer is
\* lost leaves a claim nobody works on, as ClientNext does, and a lost POST
\* /fail is swallowed ("except Exception: pass").
WorkerTimeout(w) ==
  /\ w \in Workers /\ pc[w] = "await"
  /\ Waiting(w).op = "complete"
  /\ timeouts < MaxTimeouts
  /\ timeouts' = timeouts + 1
  /\ LET r == Waiting(w)
     IN  inflight' = (inflight \ {r}) \cup
           {[r EXCEPT !.live = FALSE],
            Request("fail", w, "fail", r.job_id, WorkerUnexpectedMsg)}
  /\ UNCHANGED <<shape, clock, nextId, jobs, job_clips, creating, sresp,
                 tasks, pc, held, resp, pages, calls,
                 returned, submitted, published>>

\* --------------------------------------- another holder of WORKER_SECRET
\* GET /api/queue/next, as a second worker would send it, and POST
\* /api/queue/{job_id}/complete or /fail for any job id.  The caller sends a
\* request when it waits for no answer; the answer to its last request stays
\* in resp until then.
ClientMsg == <<"reported by client">>

ClientSend(r) ==
  /\ shape = "cloud"
  /\ pc[Client] \in {"idle", "resp"}
  /\ calls < MaxCalls
  /\ calls' = calls + 1
  /\ inflight' = inflight \cup {r}
  /\ pc' = [pc EXCEPT ![Client] = "await"]
  /\ resp' = [resp EXCEPT ![Client] = NULL]
  /\ UNCHANGED <<shape, clock, nextId, jobs, job_clips, creating, sresp,
                 tasks, held, pages, timeouts, returned, submitted,
                 published>>

ClientNext == ClientSend(Request("next", Client, "select", 0, NULL))

ClientComplete(job_id) ==
  ClientSend(Request("complete", Client, "lookup", job_id, NULL))

ClientFail(job_id) ==
  ClientSend(Request("fail", Client, "fail", job_id, ClientMsg))

\* ------------------------------------------------------------------- Next
Next ==
  \/ Tick
  \/ SubmitReject
  \/ \E clips \in ClipLists : CreateBegin(clips)
  \/ \E cr \in creating : CreateCommit(cr)
  \/ \E t \in tasks, o \in LocalOutcomes : LocalTaskRun(t, o)
  \/ \E r \in inflight : QueueNextSelect(r)
  \/ \E r \in inflight : QueueNextUpdate(r)
  \/ \E r \in inflight : QueueNextClips(r)
  \/ \E r \in inflight : QueueCompleteLookup(r)
  \/ \E r \in inflight, o \in NotionOutcomes : QueueCompletePublish(r, o)
  \/ \E r \in inflight : QueueFail(r)
  \/ \E w \in Workers : WorkerPoll(w)
  \/ \E w \in Workers : WorkerReceive(w)
  \/ \E w \in Workers, o \in WorkerOutcomes : WorkerRun(w, o)
  \/ \E w \in Workers : WorkerTimeout(w)
  \/ ClientNext
  \/ \E id \in JobIdSpace : ClientComplete(id)
  \/ \E id \in JobIdSpace : ClientFail(id)

Spec == Init /\ [][Next]_vars

\* ------------------------------------------- one server process (run_cloud)
\* run_cloud.py starts one uvicorn process, and every handler of cloud.py is
\* an "async def" that never awaits: on the single event loop a handler runs
\* to its end before the next one starts.  SpecSerial is Spec with that
\* scheduling; Spec itself also covers several server processes on one
\* queue.db.  Background tasks of local.py run in threads either way, and
\* the clock, the workers and the other callers are outside the server.
Busy ==
  \/ creating # {}
  \/ \E q \in inflight : q.step \in {"update", "clips", "publish"}

NextSerial ==
  \/ Tick
  \/ ~Busy /\ SubmitReject
  \/ ~Busy /\ \E clips \in ClipLists : CreateBegin(clips)
  \/ \E cr \in creating : CreateCommit(cr)
  \/ \E t \in tasks, o \in LocalOutcomes : LocalTaskRun(t, o)
  \/ ~Busy /\ \E r \in inflight : QueueNextSelect(r)
  \/ \E r \in inflight : QueueNextUpdate(r)
  \/ \E r \in inflight : QueueNextClips(r)
  \/ ~Busy /\ \E r \in inflight : QueueCompleteLookup(r)
  \/ \E r \in inflight, o \in NotionOutcomes : QueueCompletePublish(r, o)
  \/ ~Busy /\ \E r \in inflight : QueueFail(r)
  \/ \E w \in Workers : WorkerPoll(w)
  \/ \E w \in Workers : WorkerReceive(w)
  \/ \E w \in Workers, o \in WorkerOutcomes : WorkerRun(w, o)
  \/ \E w \in Workers : WorkerTimeout(w)
  \/ ClientNext
  \/ \E id \in JobIdSpace : ClientComplete(id)
  \/ \E id \in JobIdSpace : ClientFail(id)

SpecSerial == Init /\ [][NextSerial]_vars

\* ------------------------------------------------ concurrent claim calls
\* The scenario of N concurrent claim_next_job calls against M >= N pending
\* jobs with nothing else running: the tables as M submissions left them,
\* and one GET /queue/next of every caller accepted by the server.
Submissions(m) ==
  {f \in [1..m -> [job_id : 1..m,
                   now : {IsoFormat(t) : t \in 0..MaxClock},
                   clips : ClipLists \ {<<>>}]] :
     \A a, b \in 1..m : f[a].job_id = f[b].job_id => a = b}

RECURSIVE JobsAfter(_, _)
JobsAfter(subs, n) ==
  IF n = 0 THEN <<>>
  ELSE InsertJob(JobsAfter(subs, n - 1), subs[n].job_id, subs[n].now)

RECURSIVE ClipsAfter(_, _)
ClipsAfter(subs, n) ==
  IF n = 0 THEN <<>>
  ELSE InsertClips(ClipsAfter(subs, n - 1), subs[n].job_id, subs[n].clips)

InitClaims ==
  /\ shape = "cloud"
  /\ clock = MaxClock
  /\ \E m \in Cardinality(Callers)..MaxJobs : \E subs \in Submissions(m) :
        /\ nextId = m
        /\ jobs = JobsAfter(subs, m)
        /\ job_clips = ClipsAfter(subs, m)
        /\ sresp = [code |-> 200, job_id |-> subs[m].job_id]
        /\ submitted = [id \in JobIdSpace |->
                          IF \E a \in 1..m : subs[a].job_id = id
                          THEN subs[CHOOSE a \in 1..m :
                                      subs[a].job_id = id].clips
                          ELSE NULL]
  /\ creating = {}
  /\ tasks = {}
  /\ pc = [c \in Callers |-> "await"]
  /\ held = [c \in Callers |-> NULL]
  /\ resp = [c \in Callers |-> NULL]
  /\ inflight = {Request("next", c, "select", 0, NULL) : c \in Callers}
  /\ pages = 0
  /\ timeouts = 0
  /\ calls = 1
  /\ returned = <<>>
  /\ published = <<>>

NextClaims ==
  \/ \E r \in inflight : QueueNextSelect(r)
  \/ \E r \in inflight : QueueNextUpdate(r)
  \/ \E r \in inflight : QueueNextClips(r)

SpecClaims == InitClaims /\ [][NextClaims]_vars

\* ---------------------------------------------------------------- claims
RowOf(job_id) == CHOOSE i \in DOMAIN jobs : jobs[i].id = job_id
Terminal == {"done", "error"}
RowsWith(status) == {i \in DOMAIN jobs : jobs[i].status = status}

\* A claim_next_job call has just run its SELECT and picked a row: the
\* request is new at step "update".
Picks(r) ==
  /\ r \in inflight' /\ r \notin inflight
  /\ r.op = "next" /\ r.step = "update"

\* A claim_next_job call stands between its SELECT and its UPDATE.
Picked(r) ==
  /\ r \in inflight /\ r.op = "next" /\ r.step = "update"
  /\ jobs[RowOf(r.job_id)].status = "pending"

\* C1: no job id is returned by two claim_next_job calls.
C1_ClaimedAtMostOnce ==
  \A i, j \in DOMAIN returned : returned[i] = returned[j] => i = j

\* C2: when the N concurrent calls against M >= N pending jobs have all
\* returned, N calls returned a job, N jobs are processing, and the other
\* M - N jobs are pending with no field set.
C2_ConcurrentClaims ==
  inflight = {} =>
    /\ Len(returned) = Cardinality(Callers)
    /\ Cardinality(RowsWith("processing")) = Cardinality(Callers)
    /\ Cardinality(RowsWith("pending")) = Len(jobs) - Cardinality(Callers)
    /\ \A i \in RowsWith("pending") :
          /\ jobs[i].completed_at = NULL
          /\ jobs[i].notion_url = NULL
          /\ jobs[i].error_message = NULL

\* C3: done and error are terminal: no step changes the status of a job
\* that is done or error.
C3_TerminalIsFinal ==
  [][\A i \in DOMAIN jobs :
        jobs[i].status \in Terminal => jobs'[i].status = jobs[i].status]_vars

\* C4: in every state, done goes with notion_url set and error_message
\* absent, error with error_message set and notion_url absent, pending and
\* processing with both absent.
C4_StatusFields ==
  \A i \in DOMAIN jobs :
     /\ jobs[i].status = "done" =>
           jobs[i].notion_url # NULL /\ jobs[i].error_message = NULL
     /\ jobs[i].status = "error" =>
           jobs[i].error_message # NULL /\ jobs[i].notion_url = NULL
     /\ jobs[i].status \in {"pending", "processing"} =>
           jobs[i].notion_url = NULL /\ jobs[i].error_message = NULL

\* The row one complete_job or fail_job call leaves of a job nobody
\* reported before.
SingleCallRow(row) ==
  \/ /\ row.status = "done" /\ row.completed_at # NULL
     /\ row.notion_url # NULL /\ row.error_message = NULL
  \/ /\ row.status = "error" /\ row.completed_at # NULL
     /\ row.error_message # NULL /\ row.notion_url = NULL

\* C5: of two complete/fail calls on one job exactly one takes effect: a
\* complete or fail that changes a row another call has already finished
\* leaves the row of a single call, with nothing of the other call in it.
C5_OneWinner ==
  [][\A i \in DOMAIN jobs :
        (/\ jobs[i].status \in Terminal
         /\ jobs'[i] # jobs[i]
         /\ jobs'[i].status \in Terminal) => SingleCallRow(jobs'[i])]_vars

\* The order pending < processing < {done, error} of the statuses
\* GET /jobs/{id}/status shows; an id not inserted yet shows as not_found.
Rank(status) ==
  CASE status = "not_found" -> 0
    [] status = "pending" -> 1
    [] status = "processing" -> 2
    [] status \in Terminal -> 3

\* C6: what a poll shows never goes back in the order pending < processing
\* < {done, error}, and never switches between done and error.
C6_MonotonicPolls ==
  [][\A id \in JobIdSpace :
        LET before == JobStatusResponse(jobs, id).status
            after == JobStatusResponse(jobs', id).status
        IN  /\ Rank(before) <= Rank(after)
            /\ before \in Terminal => after = before]_vars

\* C7: the row the SELECT of claim_next_job picks is pending and no pending
\* job was created before it.
C7_OldestFirst ==
  [][\A r \in inflight' :
        Picks(r) =>
          LET i == RowOf(r.job_id)
          IN  /\ i \in PendingRows(jobs)
              /\ \A k \in PendingRows(jobs) :
                    ParseIso(jobs[i].created_at)
                      <= ParseIso(jobs[k].created_at)]_vars

\* C7, witness: a call picked a job that was inserted after a pending job
\* with a later created_at.
C7_Witness ==
  \E r \in inflight :
     /\ Picked(r)
     /\ \E k \in PendingRows(jobs) :
           /\ k < RowOf(r.job_id)
           /\ ParseIso(jobs[k].created_at)
                > ParseIso(jobs[RowOf(r.job_id)].created_at)

\* C8 as stated: claims follow insertion order, so the row picked is the
\* pending row that was inserted first.
C8_InsertionOrder ==
  [][\A r \in inflight' :
        Picks(r) => \A k \in PendingRows(jobs) : RowOf(r.job_id) <= k]_vars

\* C8 as amended: claims follow created_at, and insertion order among jobs
\* with the same created_at.
C8_CreatedAtThenInsertion ==
  [][\A r \in inflight' :
        Picks(r) =>
          LET i == RowOf(r.job_id)
          IN  \A k \in PendingRows(jobs) :
                 \/ ParseIso(jobs[i].created_at) < ParseIso(jobs[k].created_at)
                 \/ /\ jobs[i].created_at = jobs[k].created_at
                    /\ i <= k]_vars

\* C8, witness: a call picked the first of two pending jobs with the same
\* created_at.
C8_Witness ==
  \E r \in inflight :
     /\ Picked(r)
     /\ \E k \in PendingRows(jobs) :
           /\ k > RowOf(r.job_id)
           /\ jobs[k].created_at = jobs[RowOf(r.job_id)].created_at

\* C9: completed_at is absent exactly while the job is pending or
\* processing, and once set it never changes.
C9_CompletedAtOnce ==
  /\ [](\A i \in DOMAIN jobs :
          jobs[i].status \in {"pending", "processing"}
            <=> jobs[i].completed_at = NULL)
  /\ [][\A i \in DOMAIN jobs :
          jobs[i].completed_at # NULL =>
            jobs'[i].completed_at = jobs[i].completed_at]_vars

\* C10: complete and fail on an id that is in no row answer 404 and change
\* no row, and a poll of such an id answers 404.
C10_UnknownIdNotFound ==
  /\ [](\A c \in Callers :
          (/\ pc[c] = "resp"
           /\ resp[c].op \in {"complete", "fail"}
           /\ resp[c].job_id \notin JobIds(jobs)) => resp[c].code = 404)
  /\ [](\A id \in JobIdSpace \ JobIds(jobs) :
          JobStatusResponse(jobs, id).code = 404)
  /\ [][\A r \in inflight :
          (/\ r \notin inflight'
           /\ r.op \in {"complete", "fail"}
           /\ r.job_id \notin JobIds(jobs))
            => jobs' = jobs /\ job_clips' = job_clips]_vars

\* A complete_job call on job_id happens in this step: a POST /complete
\* handler or a background task created its page and wrote the row.
Completes(job_id) ==
  /\ pages' = pages + 1
  /\ \/ \E r \in inflight \ inflight' :
           r.op = "complete" /\ r.step = "publish" /\ r.job_id = job_id
     \/ \E t \in tasks \ tasks' : t.job_id = job_id

\* C11: after complete(id, url) on an existing job, whatever its state,
\* getJob(id) returns status done, the url of the call, no error_message
\* and a completed_at.
C11_CompletePostcondition ==
  [][\A id \in JobIds(jobs) :
        Completes(id) =>
          LET row == get_job_status(jobs', id)
          IN  /\ row.status = "done"
              /\ row.notion_url = PageUrl(pages')
              /\ row.error_message = NULL
              /\ row.completed_at # NULL]_vars

\* C12: after fail(id, msg) on an existing job, whatever its state,
\* getJob(id) returns status error, the message of the call and no
\* notion_url.
C12_FailPostcondition ==
  [][\A id \in JobIds(jobs) :
        \A r \in inflight \ inflight' :
           (r.op = "fail" /\ r.job_id = id) =>
             LET row == get_job_status(jobs', id)
             IN  /\ row.status = "error"
                 /\ row.error_message = r.msg
                 /\ row.notion_url = NULL]_vars

\* The status steps of one pipeline run in the remote-worker shape: the
\* claim, then the report of the outcome.
WorkerShapeSteps ==
  {<<"pending", "processing">>, <<"processing", "done">>,
   <<"processing", "error">>}

\* C13: the in-process shape drives a job through the statuses the
\* remote-worker shape drives it through: every change of status a poller
\* of the local application can see is a step of the remote-worker run.
C13_SameStatusSteps ==
  [][\A i \in DOMAIN jobs :
        (shape = "local" /\ jobs'[i].status # jobs[i].status) =>
          <<jobs[i].status, jobs'[i].status>> \in WorkerShapeSteps]_vars

\* The elements of a sequence.
Range(seq) == {seq[k] : k \in DOMAIN seq}

\* The answers of GET /queue/next that carry a job and that a caller is
\* looking at.
ClaimAnswers ==
  {resp[c] : c \in {d \in Callers : /\ pc[d] = "resp"
                                    /\ resp[d].op = "next"
                                    /\ resp[d].job # NULL}}

\* C14: create_job is atomic for every reader and claimer: a job row is
\* never visible without every clip it was submitted with, no clip is
\* visible without its job row, and the job dict a claim returns has all
\* the clips of the submission.
C14_CreateAtomic ==
  /\ \A i \in DOMAIN jobs :
        LET stored == SelectClips(job_clips, jobs[i].id)
        IN  /\ Len(stored) = Len(submitted[jobs[i].id])
            /\ Range(stored) = Range(submitted[jobs[i].id])
  /\ \A k \in DOMAIN job_clips : job_clips[k].job_id \in JobIds(jobs)
  /\ \A a \in ClaimAnswers :
        /\ Len(a.job.clips) = Len(submitted[a.job_id])
        /\ Range(a.job.clips) = Range(submitted[a.job_id])

\* C14, witness: a claim returned a job of several clips while another
\* create_job call is between taking its id and its commit.
C14_Witness ==
  /\ creating # {}
  /\ \E a \in ClaimAnswers : Len(a.job.clips) > 1

\* What get_job_status returns for a job whose error was recorded.
ErrorRecorded(row) ==
  /\ row # NULL
  /\ row.status = "error"
  /\ row.error_message # NULL

\* The handler of request r runs its last statement in this step.
Finishes(r) ==
  /\ r \in inflight /\ r \notin inflight'
  /\ [r EXCEPT !.live = FALSE] \notin inflight'

C16_NoReclaim ==
  [][\A i \in DOMAIN jobs :
        jobs[i].status = "processing" =>
          /\ jobs'[i] = jobs[i] \/ jobs'[i].status \in Terminal
          /\ \A r \in inflight' : Picks(r) => r.job_id # jobs[i].id]_vars

\* C16, witness: a job is processing, its claimer never reports (no worker
\* holds it and no request names it), and a later GET /queue/next of the
\* worker was answered with no job.
C16_Witness ==
  /\ \E i \in DOMAIN jobs :
        /\ jobs[i].status = "processing"
        /\ \A r \in inflight : r.job_id # jobs[i].id
  /\ \A w \in Workers : held[w] = NULL
  /\ \E w \in Workers :
        pc[w] = "resp" /\ resp[w].op = "next" /\ resp[w].job = NULL

\* C17: a POST /submit that is answered with the validation error (HTTP 400)
\* leaves the store as it was: no job row, no clip, no id taken, no
\* create_job call started and no background task queued, in the cloud and
\* in the local application.
C17_EmptySubmitRejected ==
  [][(sresp' = [code |-> 400] /\ sresp' # sresp) =>
        /\ jobs' = jobs
        /\ job_clips' = job_clips
        /\ nextId' = nextId
        /\ creating' = creating
        /\ tasks' = tasks]_vars

\* C17, witness: the local application has just rejected an empty
\* submission while a job of an earlier submission waits for its task.
C17_Witness ==
  /\ shape = "local"
  /\ sresp = [code |-> 400]
  /\ jobs # <<>>
  /\ tasks # {}

\* C18: the clips of the job dict claim_next_job returns are the clips
\* create_job was called with for that job, in the same order: in every
\* answer a caller looks at and in every job dict a worker works on.
C18_ClipOrder ==
  /\ \A a \in ClaimAnswers : a.job.clips = submitted[a.job_id]
  /\ \A w \in Workers :
        held[w] # NULL => held[w].clips = submitted[held[w].id]

\* C18, witness: a claim returned several clips of a job whose clip rows
\* come after the clip rows of another job in job_clips.
C18_Witness ==
  \E a \in ClaimAnswers :
     /\ Len(a.job.clips) > 1
     /\ \E k, n \in DOMAIN job_clips :
           /\ k < n
           /\ job_clips[k].job_id # a.job_id
           /\ job_clips[n].job_id = a.job_id

\* C19: the step in which create_job commits appends one row, and
\* get_job_status on the id the call returns gives that row: status
\* pending, with notion_url, error_message and completed_at absent.
C19_CreatedPending ==
  [][Len(jobs') > Len(jobs) =>
        LET row == get_job_status(jobs', sresp'.job_id)
        IN  /\ sresp'.code = 200
            /\ Len(jobs') = Len(jobs) + 1
            /\ row = jobs'[Len(jobs')]
            /\ row.status = "pending"
            /\ row.notion_url = NULL
            /\ row.error_message = NULL
            /\ row.completed_at = NULL]_vars

\* C19, witness: the cloud application has answered its second POST /submit;
\* the job of that answer is the newest row and is pending with no field
\* set, next to the first job, which the worker has claimed and completed.
\* Nothing else is under way.
C19_Witness ==
  /\ shape = "cloud"
  /\ Len(jobs) = 2
  /\ sresp # NULL /\ sresp.code = 200
  /\ jobs[2] = [id |-> sresp.job_id, status |-> "pending",
                created_at |-> jobs[2].created_at,
                completed_at |-> NULL, notion_url |-> NULL,
                error_message |-> NULL]
  /\ jobs[1].status = "done"
  /\ returned = <<jobs[1].id>>
  /\ published = <<jobs[1].id>>
  /\ creating = {} /\ inflight = {}
  /\ \A w \in Workers : pc[w] = "idle"

\* C20: a claim_next_job call whose SELECT runs when no job is pending
\* ends there: GET /queue/next answers with no job, and no row of jobs or
\* job_clips changes, whatever the statuses of the jobs.
C20_NoneWhenNothingPending ==
  [][\A r \in inflight :
        (/\ r.op = "next" /\ r.step = "select"
         /\ r \notin inflight'
         /\ \A i \in DOMAIN jobs : jobs[i].status # "pending")
          => /\ inflight' = inflight \ {r}
             /\ pc'[r.from] = "resp"
             /\ resp'[r.from].op = "next"
             /\ resp'[r.from].job = NULL
             /\ jobs' = jobs
             /\ job_clips' = job_clips]_vars

\* C20, witness: a caller looks at an answer of GET /queue/next without a
\* job while one job is processing and another is done or error.
C20_Witness ==
  /\ \E c \in Callers :
        pc[c] = "resp" /\ resp[c].op = "next" /\ resp[c].job = NULL
  /\ \E i \in DOMAIN jobs : jobs[i].status = "processing"
  /\ \E i \in DOMAIN jobs : jobs[i].status \in Terminal
  /\ \A i \in DOMAIN jobs : jobs[i].status # "pending"

\* C21: clips are written by create_job only, and complete and fail write
\* one row.  job_clips changes only in the step in which a create_job call
\* commits, which appends the clips of that call and alters no older row;
\* and the step in which a POST /complete, a POST /fail or a background
\* task ends leaves every row of another job as it was.
C21_FrameOfWrites ==
  [][/\ job_clips' # job_clips =>
          \E cr \in creating \ creating' :
             job_clips' = InsertClips(job_clips, cr.job_id, cr.clips)
     /\ \A r \in inflight :
           (Finishes(r) /\ r.op \in {"complete", "fail"}) =>
             /\ Len(jobs') = Len(jobs)
             /\ \A i \in DOMAIN jobs :
                   jobs[i].id # r.job_id => jobs'[i] = jobs[i]
     /\ \A t \in tasks \ tasks' :
           /\ Len(jobs') = Len(jobs)
           /\ \A i \in DOMAIN jobs :
                 jobs[i].id # t.job_id => jobs'[i] = jobs[i]]_vars

\* C21, witness: a caller looks at the answer to a POST /complete that made
\* its job done, while a second job with clips of its own is pending or
\* processing.
C21_Witness ==
  \E c \in Callers :
     /\ pc[c] = "resp" /\ resp[c].op = "complete" /\ resp[c].code = 200
     /\ \E i, k \in DOMAIN jobs :
           /\ jobs[i].id = resp[c].job_id /\ jobs[i].status = "done"
           /\ jobs[k].id # resp[c].job_id
           /\ jobs[k].status \in {"pending", "processing"}
           /\ SelectClips(job_clips, jobs[k].id) # <<>>

\* C22: a job is completed only by a pipeline run that published, once.
\* In every state a done job carries the URL of a page create_notion_page
\* made for that job.  A step sets a notion_url or makes a job done only as
\* the step that made the page for it; a page is made only by the last step
\* of a POST /complete handler or of a background task, so no run publishes
\* twice; and the worker sends POST /complete only out of a run of the job
\* it holds.
C22_DoneAfterPublish ==
  /\ [](\A i \in DOMAIN jobs :
          jobs[i].status = "done" =>
            \E n \in DOMAIN published :
               published[n] = jobs[i].id /\ jobs[i].notion_url = PageUrl(n))
  /\ [][\A i \in DOMAIN jobs :
          (\/ jobs'[i].notion_url # jobs[i].notion_url
           \/ jobs'[i].status = "done" /\ jobs[i].status # "done")
            => /\ published' = Append(published, jobs[i].id)
               /\ jobs'[i].status = "done"
               /\ jobs'[i].notion_url = PageUrl(Len(published'))]_vars
  /\ [][published' # published =>
          /\ Len(published') = Len(published) + 1
          /\ pages' = Len(published')
          /\ \/ \E r \in inflight :
                   /\ Finishes(r) /\ r.op = "complete" /\ r.step = "publish"
                   /\ r.job_id = published'[Len(published')]
             \/ \E t \in tasks \ tasks' :
                   t.job_id = published'[Len(published')]]_vars
  /\ [][\A r \in inflight' \ inflight :
          (/\ r.op = "complete" /\ r.step = "lookup" /\ r.live
           /\ r.from \in Workers) =>
            /\ pc[r.from] = "run" /\ pc'[r.from] = "await"
            /\ r.job_id = held[r.from].id]_vars

\* C22, witness: a job is done with the URL of the second page, the first
\* page having been made for another job.
C22_Witness ==
  /\ Len(published) > 1
  /\ published[1] # published[2]
  /\ \E i \in DOMAIN jobs :
        /\ jobs[i].id = published[2]
        /\ jobs[i].status = "done"
        /\ jobs[i].notion_url = PageUrl(2)

\* C23: queue_complete publishes and completes only a job in processing.
\* The step in which a POST /complete handler ends for a job that is not
\* in processing (pending, done, error, or no row) makes no page and
\* leaves jobs unchanged.
C23_CompleteOnlyProcessing ==
  [][\A r \in inflight :
        (/\ Finishes(r) /\ r.op = "complete"
         /\ \/ get_job_status(jobs, r.job_id) = NULL
            \/ get_job_status(jobs, r.job_id).status # "processing")
          => /\ pages' = pages
             /\ published' = published
             /\ jobs' = jobs]_vars

\* ------------------------------------------------------------- liveness
\* The system when the pipeline runner does not crash and the network calls
\* of the worker succeed: no request of the worker times out, and nobody
\* claims a job without working on it.  Every handler the server has
\* accepted runs on, every background task runs, and the loop of main keeps
\* polling, receiving and processing.
NextLive ==
  \/ Tick
  \/ SubmitReject
  \/ \E clips \in ClipLists : CreateBegin(clips)
  \/ \E cr \in creating : CreateCommit(cr)
  \/ \E t \in tasks, o \in LocalOutcomes : LocalTaskRun(t, o)
  \/ \E r \in inflight : QueueNextSelect(r)
  \/ \E r \in inflight : QueueNextUpdate(r)
  \/ \E r \in inflight : QueueNextClips(r)
  \/ \E r \in inflight : QueueCompleteLookup(r)
  \/ \E r \in inflight, o \in NotionOutcomes : QueueCompletePublish(r, o)
  \/ \E r \in inflight : QueueFail(r)
  \/ \E w \in Workers : WorkerPoll(w)
  \/ \E w \in Workers : WorkerReceive(w)
  \/ \E w \in Workers, o \in WorkerOutcomes : WorkerRun(w, o)
  \/ \E id \in JobIdSpace : ClientComplete(id)
  \/ \E id \in JobIdSpace : ClientFail(id)

Fairness ==
  /\ WF_vars(\E cr \in creating : CreateCommit(cr))
  /\ WF_vars(\E t \in tasks, o \in LocalOutcomes : LocalTaskRun(t, o))
  /\ WF_vars(\E r \in inflight : QueueNextSelect(r))
  /\ WF_vars(\E r \in inflight : QueueNextUpdate(r))
  /\ WF_vars(\E r \in inflight : QueueNextClips(r))
  /\ WF_vars(\E r \in inflight : QueueCompleteLookup(r))
  /\ WF_vars(\E r \in inflight, o \in NotionOutcomes :
                QueueCompletePublish(r, o))
  /\ WF_vars(\E r \in inflight : QueueFail(r))
  /\ WF_vars(\E w \in Workers : WorkerPoll(w))
  /\ WF_vars(\E w \in Workers : WorkerReceive(w))
  /\ WF_vars(\E w \in Workers, o \in WorkerOutcomes : WorkerRun(w, o))

SpecLive == Init /\ [][NextLive]_vars /\ Fairness

\* C24: in either shape every job in the table eventually is done or error.
C24_EveryJobFinishes ==
  \A id \in JobIdSpace :
     (id \in JobIds(jobs))
       ~> (id \in JobIds(jobs) /\ jobs[RowOf(id)].status \in Terminal)

\* C24, witness: in the cloud application every job the bound allows was
\* submitted and claimed by the worker, and all are done or error.
C24_Witness ==
  /\ shape = "cloud"
  /\ Len(jobs) = MaxJobs
  /\ Len(returned) = MaxJobs
  /\ \A i \in DOMAIN jobs : jobs[i].status \in Terminal

=============================================================================
